---- MODULE Spec2Model ----
(***************************************************************************)
(* Process management syscalls of the rCore camp kernel                    *)
(* (os/src/syscall/process.rs) over the task manager, the process tree     *)
(* and the calling task's address space.                                   *)
(*                                                                         *)
(* The specifications of the module:                                       *)
(*   Spec      - process tree: fork, spawn, exec, exit, yield, waitpid     *)
(*   SpecMem   - the calling task's address space: mmap, munmap            *)
(*   SpecSched - stride scheduling: set_priority, add_task, fetch_task     *)
(*   SpecRounds - stride scheduling of always-ready tasks, round by round *)
(*   SpecLoad  - fork, spawn and exec with images that load or do not      *)
(*   SpecLink  - the link-count table: link, unlink                        *)
(*   SpecInfo  - syscall accounting: TaskInfo::syscalled, task_info        *)
(*   SpecCopy  - get_time and task_info writing into user memory           *)
(*   SpecCell  - the exclusive-access cells the syscalls take              *)
(*   SpecDir   - hard links: create_link, destroy_link, fstat              *)
(***************************************************************************)
EXTENDS Integers, Sequences, FiniteSets, TLC

\* ------------------------------------------------------------------ bounds
\* pids 0..MaxPid exist; the pid pool hands out 1..MaxPid
MaxPid == 3

Pids == 0..MaxPid

\* the initial process: it reaps orphans and never exits
INITPROC == 0

\* user addresses a caller passes as exit_code_ptr
Ptrs == {0, 4}

\* exit codes passed to sys_exit
ExitCodes == {0, 7}

\* pid filters passed to sys_waitpid: any child, or one pid (INITPROC is
\* no one's child: its pid is a filter like the pid of any other non-child)
WaitPids == {-1} \cup (Pids \ {INITPROC})

\* a freshly loaded user image holds zero at every address of Ptrs
ZeroMem == [a \in Ptrs |-> 0]

VARIABLES
    procs,        \* pids of the PCBs that exist (some Arc still holds them)
    status,       \* status[p]: "Ready", "Running", "Zombie"; "None" without PCB
    children,     \* children[p]: Vec<Arc<TaskControlBlock>>, in push order
    parent,       \* parent[p]: Option<Weak<..>> as <<>> or <<q>>
    exit_code,    \* exit_code[p]
    umem,         \* umem[p][a]: the i32 at user address a of p's address space
    ready_queue,  \* TaskManager.ready_queue
    current,      \* Processor.current: Option as <<>> or <<p>>
    next_pid,     \* the pid pool's next pid
    panicked,     \* the kernel hit a failed assertion
    reaped,       \* history: the pids sys_waitpid has returned so far
    last,         \* the last syscall: its name and its result
    page_table,   \* the calling task's memory_set: vpn -> permissions, {} unmapped
    mlast,        \* the last mmap/munmap: its arguments and result, the request
                  \* it passed to the memory set, the page table before it
    prio,         \* prio[p]: the priority set_priority stored
    pass,         \* pass[p]: BIG_STRIDE / prio[p]
    stride,       \* stride[p]: the stride accumulated by fetch_task
    fetched,      \* what the last fetch_task returned: <<>> or <<p>>
    rounds,       \* scheduling rounds played so far
    selected,     \* selected[p]: rounds in which fetch_task returned p
    trap_cx,      \* trap_cx[p]: the saved user registers of p, x10 of them
    copied,       \* history: the pids whose address space was, at some step,
                  \* a duplicate of their parent's
    link_vec,     \* LINK_VEC: Vec<(Inode, u32)> as records [ino, count]
    flast,        \* the last link/unlink: its name, its inode and its result
    task_info,    \* task_info[p]: the TaskInfo of task p's inner state
    entered,      \* history: entered[p][id], the syscalls id that p entered
    reported,     \* the TaskInfo sys_task_info wrote last: <<>> or <<r>>
    frame_of,     \* the calling task's page table: frame_of[vpn], <<>> before
                  \* the destination pages are mapped
    pmem,         \* pmem[ppn][offset]: the word at that offset of frame ppn
    clast,        \* the last get_time/task_info: its destination and values
    crun,         \* the syscall being executed, its caller and the cell
                  \* operations it has still to do
    held,         \* the PCBs whose exclusive-access cell is held, in the
                  \* order of acquisition
    cfault,       \* a cell was asked for while it was held
    dir,          \* the root directory: dir[name] is the inode number the
                  \* name resolves to, 0 when there is no such name
    dlast         \* the last create_link/destroy_link: its name and result

procVars == <<procs, status, children, parent, exit_code, umem, ready_queue,
              current, next_pid, panicked>>

memVars == <<page_table, mlast>>

schedVars == <<prio, pass, stride, fetched, rounds, selected>>

cxVars == <<trap_cx, copied>>

\* the state of the specifications further down
fsVars == <<link_vec, flast>>

infoVars == <<task_info, entered, reported>>

copyVars == <<frame_of, pmem, clast>>

cellVars == <<crun, held, cfault>>

dirVars == <<dir, dlast>>

sideVars == <<fsVars, infoVars, copyVars, cellVars, dirVars>>

vars == <<procVars, reaped, last, memVars, schedVars, cxVars, sideVars>>

\* ----------------------------------------------------------------- helpers
RemoveAt(s, i) == SubSeq(s, 1, i - 1) \o SubSeq(s, i + 1, Len(s))

Range(s) == {s[i] : i \in 1..Len(s)}

Occurrences(s, x) == Cardinality({i \in 1..Len(s) : s[i] = x})

Call(c, r) == [call |-> c, ret |-> r]

\* ----------------------------------------------------------- task manager
\* add_task: push to the back of the ready queue
add_task(q, t) == Append(q, t)

\* faulty variant: the head of the queue is taken whatever the strides
fetch_idx_fifo(q, st) == IF q = <<>> THEN 0 ELSE 1

\* fetch_task: index of the ready task of minimum stride, the earliest in
\* queue order among equal strides; 0 on an empty queue
fetch_idx(q, st) ==
    IF q = <<>> THEN 0
    ELSE CHOOSE i \in 1..Len(q) :
            /\ \A j \in 1..Len(q) : st[q[i]] <= st[q[j]]
            /\ \A j \in 1..(i - 1) : st[q[j]] # st[q[i]]

\* fetch_task: the task returned from a queue that is not empty
fetch_task(q, st) == q[fetch_idx(q, st)]

\* the scheduler's choice on a queue: the slot and what is left of the queue
schedule(q, st) ==
    LET i == fetch_idx(q, st) IN
    IF i = 0 THEN [cur |-> <<>>, rq |-> q]
    ELSE [cur |-> <<q[i]>>, rq |-> RemoveAt(q, i)]

\* Spec does not track the PCBs' strides: a scheduling decision is taken
\* under stride assignments that make each ready task the one of least stride
AnyStrides == {[p \in Pids |-> IF p = k THEN 0 ELSE 1] : k \in Pids}

\* ------------------------------------------------------------- file system
\* names the root directory resolves; "bad" holds no loadable image
Files == {"app", "bad"}

\* the files whose bytes the loader can build an address space from
Images == {"app"}

\* paths a caller passes to exec and spawn
Paths == {"app", "nofile"}

\* open_file(name, RDONLY): ROOT_INODE.find(name)
open_file(name) == name \in Files

\* ------------------------------------------------------------ process tree
\* TaskControlBlock::fork: a new PCB with the next pid, a copy of the parent's
\* address space, status Ready, linked into the parent's children
fork_status(p, c) == [status EXCEPT ![c] = "Ready"]
fork_children(p, c) == [children EXCEPT ![p] = Append(@, c)]
fork_parent(p, c) == [parent EXCEPT ![c] = <<p>>]
fork_umem(p, c) == [umem EXCEPT ![c] = umem[p]]

\* TaskControlBlock::exec: the address space is replaced by the image's
exec_umem(m, p) == [m EXCEPT ![p] = ZeroMem]

\* the trap context of a freshly loaded image: the registers are zero
InitCx == [x10 |-> 0]

\* TaskControlBlock::fork clones the caller's trap context
fork_trap_cx(cx, p, c) == [cx EXCEPT ![c] = cx[p]]

\* faulty variant: the child keeps the x10 it was cloned with
child_return_kept(cx, c) == cx

\* lines 62-65 and 261-264: trap_cx.x[10] = 0 in the new task
child_return(cx, c) == [cx EXCEPT ![c].x10 = 0]

\* TaskControlBlock::exec resets the trap context to the image's entry
exec_trap_cx(cx, p) == [cx EXCEPT ![p] = InitCx]

\* TaskControlBlock::exec on the bytes of file name: all or nothing
exec_image_umem(m, p, name) == IF name \in Images THEN exec_umem(m, p) ELSE m
exec_image_cx(cx, p, name) == IF name \in Images THEN exec_trap_cx(cx, p) ELSE cx

\* number of strong references to PCB c held by the kernel's collections
strong_count(c, ch, rq, cur) ==
    Occurrences(rq, c) + Occurrences(cur, c)
    + Cardinality({<<p, i>> \in Pids \X (1..MaxPid + 1) :
                      i <= Len(ch[p]) /\ ch[p][i] = c})

\* -------------------------------------------------------------- sys_waitpid
\* the pid filter of lines 98 and 105
matches(pid, p) == pid = -1 \/ pid = p

\* faulty variant: the filter -1 is compared as a pid like any other
any_match_exact(ch, pid) == \E i \in 1..Len(ch) : pid = ch[i]

\* lines 95-99: is there a child the filter matches
any_match(ch, pid) == \E i \in 1..Len(ch) : matches(pid, ch[i])

\* faulty variant: the last matching zombie child is found instead of the first
find_zombie_last(ch, pid) ==
    LET Z == {i \in 1..Len(ch) : status[ch[i]] = "Zombie" /\ matches(pid, ch[i])}
    IN IF Z = {} THEN 0 ELSE CHOOSE i \in Z : \A j \in Z : i >= j

\* lines 103-107: index of the first matching zombie child, 0 when none
find_zombie(ch, pid) ==
    LET Z == {i \in 1..Len(ch) : status[ch[i]] = "Zombie" /\ matches(pid, ch[i])}
    IN IF Z = {} THEN 0 ELSE CHOOSE i \in Z : \A j \in Z : i <= j

\* faulty variant: the child stays in the collection
remove_child_kept(ch, idx) == ch

\* line 109: children.remove(idx)
remove_child(ch, idx) == RemoveAt(ch, idx)

\* line 116: the exit code is stored at exit_code_ptr of the caller's space
write_exit_code(m, task, ptr, code) == [m EXCEPT ![task][ptr] = code]

sys_waitpid(pid, ptr) ==
    /\ ~panicked
    /\ current # <<>>
    /\ LET task == current[1]
           ch == children[task]
           idx == find_zombie(ch, pid)
       IN
       IF ~any_match(ch, pid) THEN
            /\ last' = Call("waitpid", -1)
            /\ UNCHANGED <<procVars, reaped, memVars, cxVars, sideVars, schedVars>>
       ELSE IF idx = 0 THEN
            /\ last' = Call("waitpid", -2)
            /\ UNCHANGED <<procVars, reaped, memVars, cxVars, sideVars, schedVars>>
       ELSE
            LET child == ch[idx]
                ch2 == [children EXCEPT ![task] = remove_child(ch, idx)]
            IN
            /\ children' = ch2
            /\ IF strong_count(child, ch2, ready_queue, current) + 1 # 1 THEN
                    \* assert_eq!(Arc::strong_count(&child), 1) fails
                    /\ panicked' = TRUE
                    /\ last' = Call("waitpid", 0)
                    /\ UNCHANGED <<procs, status, parent, exit_code, umem, reaped>>
               ELSE
                    /\ panicked' = FALSE
                    /\ umem' = [write_exit_code(umem, task, ptr, exit_code[child])
                                    EXCEPT ![child] = ZeroMem]
                    /\ last' = Call("waitpid", child)
                    /\ reaped' = reaped \cup {child}
                    \* the last Arc is dropped with the local `child`
                    /\ procs' = procs \ {child}
                    /\ status' = [status EXCEPT ![child] = "None"]
                    /\ parent' = [parent EXCEPT ![child] = <<>>]
                    /\ exit_code' = [exit_code EXCEPT ![child] = 0]
            /\ UNCHANGED <<ready_queue, current, next_pid, memVars, cxVars, sideVars, schedVars>>

\* ----------------------------------------------------------------- sys_fork
sys_fork ==
    /\ ~panicked
    /\ current # <<>>
    /\ next_pid <= MaxPid
    /\ LET task == current[1]
           new_pid == next_pid
       IN
       /\ procs' = procs \cup {new_pid}
       /\ status' = fork_status(task, new_pid)
       /\ children' = fork_children(task, new_pid)
       /\ parent' = fork_parent(task, new_pid)
       /\ umem' = fork_umem(task, new_pid)
       /\ next_pid' = next_pid + 1
       /\ trap_cx' = child_return(fork_trap_cx(trap_cx, task, new_pid), new_pid)
       /\ copied' = copied \cup {new_pid}
       /\ ready_queue' = add_task(ready_queue, new_pid)
       /\ last' = Call("fork", new_pid)
       /\ UNCHANGED <<exit_code, current, panicked, reaped, memVars, sideVars, schedVars>>

\* ---------------------------------------------------------------- sys_spawn
sys_spawn(path) ==
    /\ ~panicked
    /\ current # <<>>
    /\ next_pid <= MaxPid
    /\ LET task == current[1]
           new_pid == next_pid
       IN
       \* line 258: current_task.fork()
       /\ procs' = procs \cup {new_pid}
       /\ status' = fork_status(task, new_pid)
       /\ children' = fork_children(task, new_pid)
       /\ parent' = fork_parent(task, new_pid)
       /\ next_pid' = next_pid + 1
       /\ copied' = copied \cup {new_pid}
       /\ LET cx == child_return(fork_trap_cx(trap_cx, task, new_pid), new_pid) IN
          IF open_file(path) THEN
               \* lines 268-271: new_task.exec, add_task
               /\ umem' = exec_image_umem(fork_umem(task, new_pid), new_pid, path)
               /\ trap_cx' = exec_image_cx(cx, new_pid, path)
               /\ ready_queue' = add_task(ready_queue, new_pid)
               /\ last' = Call("spawn", new_pid)
          ELSE
               /\ umem' = fork_umem(task, new_pid)
               /\ trap_cx' = cx
               /\ ready_queue' = ready_queue
               /\ last' = Call("spawn", -1)
       /\ UNCHANGED <<exit_code, current, panicked, reaped, memVars, sideVars, schedVars>>

\* ----------------------------------------------------------------- sys_exec
sys_exec(path) ==
    /\ ~panicked
    /\ current # <<>>
    /\ LET task == current[1] IN
       IF open_file(path) THEN
            \* lines 77-80: task.exec(all_data), then 0 whatever exec did
            /\ umem' = exec_image_umem(umem, task, path)
            /\ trap_cx' = exec_image_cx(trap_cx, task, path)
            /\ last' = Call("exec", 0)
       ELSE
            /\ umem' = umem
            /\ trap_cx' = trap_cx
            /\ last' = Call("exec", -1)
    /\ UNCHANGED <<procs, status, children, parent, exit_code, ready_queue,
                   current, next_pid, panicked, reaped, copied, memVars,
                   sideVars, schedVars>>

\* ----------------------------------------------------------------- sys_exit
\* exit_current_and_run_next: the caller becomes a zombie, its children move
\* to INITPROC, its data pages are recycled and the next task is scheduled
\* faulty variant: the children are dropped with the exiting task's collection
exit_children_dropped(p) == [children EXCEPT ![p] = <<>>]

\* faulty variant: the children are pushed to INITPROC and stay where they are
exit_children_shared(p) == [children EXCEPT ![INITPROC] = @ \o children[p]]

exit_children(p) ==
    [children EXCEPT ![INITPROC] = @ \o children[p], ![p] = <<>>]

exit_parent(p) ==
    [q \in Pids |-> IF q \in Range(children[p]) THEN <<INITPROC>> ELSE parent[q]]

\* exit_current_and_run_next, the next task fetched under the strides st
exit_current_and_run_next(task, code, st) ==
    LET s == schedule(ready_queue, st) IN
    /\ exit_code' = [exit_code EXCEPT ![task] = code]
    /\ children' = exit_children(task)
    /\ parent' = exit_parent(task)
    /\ umem' = [umem EXCEPT ![task] = ZeroMem]
    /\ current' = s.cur
    /\ ready_queue' = s.rq
    /\ status' = [q \in Pids |->
                    IF q = task THEN "Zombie"
                    ELSE IF s.cur = <<q>> THEN "Running"
                    ELSE status[q]]
    /\ UNCHANGED <<procs, next_pid, panicked, reaped>>

sys_exit(code) ==
    /\ ~panicked
    /\ current # <<>>
    /\ current[1] # INITPROC
    /\ \E st \in AnyStrides : exit_current_and_run_next(current[1], code, st)
    /\ last' = Call("exit", 0)
    /\ UNCHANGED <<memVars, cxVars, sideVars, schedVars>>

\* ---------------------------------------------------------------- sys_yield
\* suspend_current_and_run_next: the caller goes to the back of the ready
\* queue and the next task is scheduled
suspend_current_and_run_next(task, st) ==
    LET s == schedule(add_task(ready_queue, task), st) IN
    /\ current' = s.cur
    /\ ready_queue' = s.rq
    /\ status' = [q \in Pids |->
                    IF s.cur = <<q>> THEN "Running"
                    ELSE IF q = task THEN "Ready"
                    ELSE status[q]]
    /\ UNCHANGED <<procs, children, parent, exit_code, umem, next_pid,
                   panicked, reaped>>

sys_yield ==
    /\ ~panicked
    /\ current # <<>>
    /\ \E st \in AnyStrides : suspend_current_and_run_next(current[1], st)
    /\ last' = Call("yield", 0)
    /\ UNCHANGED <<memVars, cxVars, sideVars, schedVars>>

\* ---------------------------------------------------------------- user code
\* values user code leaves in a0 before it traps
UserRegs == {0, 5}

\* the current task runs in user mode: it stores v at address a of its own
\* address space and traps with a0 in x10
user_run(a0, a, v) ==
    /\ ~panicked
    /\ current # <<>>
    /\ trap_cx' = [trap_cx EXCEPT ![current[1]].x10 = a0]
    /\ umem' = [umem EXCEPT ![current[1]][a] = v]
    /\ last' = Call("user", 0)
    /\ UNCHANGED <<procs, status, children, parent, exit_code, ready_queue,
                   current, next_pid, panicked, reaped, copied, memVars,
                   sideVars, schedVars>>

\* ----------------------------------------------------------- address space
PAGE_SIZE == 4096

\* virtual pages 0..MaxPage of the calling task's address space are modelled
MaxPage == 3

Vpns == 0..MaxPage

\* start addresses, lengths and prot words passed to mmap and munmap
Starts == {k * PAGE_SIZE : k \in Vpns} \cup {8}

Lens == {0, PAGE_SIZE, PAGE_SIZE + 1, 2 * PAGE_SIZE}

Prots == {0, 3, 4, 8, 11}

\* the request lies in the modelled part of the address space
InSpace(start, len) == start + len <= (MaxPage + 1) * PAGE_SIZE

\* VirtAddr::floor, VirtAddr::ceil and VirtAddr::aligned
floor(va) == va \div PAGE_SIZE

ceil(va) == (va + PAGE_SIZE - 1) \div PAGE_SIZE

aligned(va) == va % PAGE_SIZE = 0

\* the pages of [start, start + len)
vpn_range(start, len) == {v \in Vpns : floor(start) <= v /\ v < ceil(start + len)}

\* syscall_mmap: a range holding a mapped page is rejected; otherwise every
\* page of the range is mapped with the permissions
syscall_mmap_ret(pt, start, len, perm) ==
    IF \E v \in vpn_range(start, len) : pt[v] # {} THEN -1 ELSE 0

syscall_mmap_pt(pt, start, len, perm) ==
    IF syscall_mmap_ret(pt, start, len, perm) = -1 THEN pt
    ELSE [v \in Vpns |-> IF v \in vpn_range(start, len) THEN perm ELSE pt[v]]

\* syscall_munmap: a range holding an unmapped page is rejected; otherwise
\* every page of the range is unmapped
syscall_munmap_ret(pt, start, len) ==
    IF \E v \in vpn_range(start, len) : pt[v] = {} THEN -1 ELSE 0

syscall_munmap_pt(pt, start, len) ==
    IF syscall_munmap_ret(pt, start, len) = -1 THEN pt
    ELSE [v \in Vpns |-> IF v \in vpn_range(start, len) THEN {} ELSE pt[v]]

\* bit k of a prot word
bit(n, k) == (n \div (2 ^ k)) % 2 = 1

\* lines 206-218: R, W, X as selected by the bits, plus U
convert_sysmmap_to_map_permission(prot) ==
    (IF bit(prot, 0) THEN {"R"} ELSE {})
    \cup (IF bit(prot, 1) THEN {"W"} ELSE {})
    \cup (IF bit(prot, 2) THEN {"X"} ELSE {})
    \cup {"U"}

\* faulty variant: a prot word whose low three bits are zero is let through
mmap_args_ok_noprot(start, len, prot) ==
    /\ ~(len = 0 \/ start % PAGE_SIZE # 0)
    /\ ~(prot \div 8 # 0)

\* lines 186-196: the argument checks of sys_mmap
mmap_args_ok(start, len, prot) ==
    /\ ~(len = 0 \/ start % PAGE_SIZE # 0)
    /\ ~(prot \div 8 # 0)
    /\ ~(prot % 8 = 0)

\* faulty variant: the result of syscall_mmap is dropped
sys_mmap_ret_dropped(pt, start, len, prot) ==
    IF ~mmap_args_ok(start, len, prot) THEN -1 ELSE 0

\* lines 180-203
sys_mmap_ret(pt, start, len, prot) ==
    IF ~mmap_args_ok(start, len, prot) THEN -1
    ELSE syscall_mmap_ret(pt, start, len, convert_sysmmap_to_map_permission(prot))

sys_mmap_pt(pt, start, len, prot) ==
    IF ~mmap_args_ok(start, len, prot) THEN pt
    ELSE syscall_mmap_pt(pt, start, len, convert_sysmmap_to_map_permission(prot))

sys_mmap_req(start, len, prot) ==
    IF ~mmap_args_ok(start, len, prot) THEN <<>>
    ELSE <<start, len, convert_sysmmap_to_map_permission(prot)>>

\* faulty variant: only the start address is checked
munmap_args_ok_start(start, len) == ~(start % PAGE_SIZE # 0)

\* lines 228-236: the alignment checks of sys_munmap
munmap_args_ok(start, len) ==
    /\ ~(start % PAGE_SIZE # 0)
    /\ ~(~aligned(start) \/ ~aligned(start + len))

\* lines 221-238
sys_munmap_ret(pt, start, len) ==
    IF ~munmap_args_ok(start, len) THEN -1 ELSE syscall_munmap_ret(pt, start, len)

sys_munmap_pt(pt, start, len) ==
    IF ~munmap_args_ok(start, len) THEN pt ELSE syscall_munmap_pt(pt, start, len)

MCall(c, start, len, prot, r, req, before) ==
    [call |-> c, start |-> start, len |-> len, prot |-> prot, ret |-> r,
     req |-> req, before |-> before]

sys_mmap(start, len, prot) ==
    /\ InSpace(start, len)
    /\ page_table' = sys_mmap_pt(page_table, start, len, prot)
    /\ mlast' = MCall("mmap", start, len, prot,
                      sys_mmap_ret(page_table, start, len, prot),
                      sys_mmap_req(start, len, prot), page_table)
    /\ UNCHANGED <<procVars, reaped, last, schedVars, cxVars, sideVars>>

sys_munmap(start, len) ==
    /\ InSpace(start, len)
    /\ page_table' = sys_munmap_pt(page_table, start, len)
    /\ mlast' = MCall("munmap", start, len, 0,
                      sys_munmap_ret(page_table, start, len),
                      IF munmap_args_ok(start, len) THEN <<start, len>> ELSE <<>>,
                      page_table)
    /\ UNCHANGED <<procVars, reaped, last, schedVars, cxVars, sideVars>>

\* ------------------------------------------------------ syscall accounting
\* os/src/task/info.rs and sys_task_info
\* the tasks whose syscalls are counted
InfoTasks == {1, 2}

\* the syscall number of task_info
SYSCALL_TASK_INFO == 410

\* the syscall numbers the tasks enter with
SyscallIds == {124, SYSCALL_TASK_INFO}

\* what get_time_ms answers
Times == {0, 5}

\* syscall entries are followed up to MaxEntries of them
MaxEntries == 4

\* Option<usize> as <<>> or <<t>>
\* lines 24-31 of info.rs
TaskInfo_init ==
    [status        |-> "Running",
     syscall_times |-> [id \in SyscallIds |-> 0],
     time          |-> 0,
     first_time    |-> <<>>]

\* faulty variant: every counter of the task is incremented
syscalled_all(ti, syscall_id, now) ==
    [ti EXCEPT !.syscall_times = [id \in SyscallIds |-> @[id] + 1],
               !.time = IF ti.first_time # <<>> THEN now - ti.first_time[1] ELSE 0,
               !.first_time = IF ti.first_time # <<>> THEN @ ELSE <<now>>]

\* lines 34-47 of info.rs
syscalled(ti, syscall_id, now) ==
    [ti EXCEPT !.syscall_times[syscall_id] = @ + 1,
               !.time = IF ti.first_time # <<>> THEN now - ti.first_time[1] ELSE 0,
               !.first_time = IF ti.first_time # <<>> THEN @ ELSE <<now>>]

get_syscall_times(ti) == ti.syscall_times

get_start_time(ti) == ti.first_time[1]

\* what sys_task_info writes to the user's TaskInfo, lines 163-167 of
\* process.rs
task_info_written(ti, now) ==
    [status        |-> "Running",
     syscall_times |-> get_syscall_times(ti),
     time          |-> now - get_start_time(ti)]

TotalEntered ==
    LET RECURSIVE Sum(_)
        Sum(S) == IF S = {} THEN 0
                  ELSE LET x == CHOOSE y \in S : TRUE
                       IN entered[x[1]][x[2]] + Sum(S \ {x})
    IN Sum(InfoTasks \X SyscallIds)

\* task p traps with syscall number syscall_id while the clock shows now:
\* the entry is counted, then the syscall runs; sys_task_info is the one
\* followed here
syscall(p, syscall_id, now) ==
    /\ TotalEntered < MaxEntries
    /\ task_info[p].first_time # <<>> => now >= task_info[p].first_time[1]
    /\ LET ti == syscalled(task_info[p], syscall_id, now) IN
       /\ task_info' = [task_info EXCEPT ![p] = ti]
       /\ reported' = IF syscall_id = SYSCALL_TASK_INFO
                      THEN <<[task |-> p, info |-> task_info_written(ti, now)]>>
                      ELSE reported
    /\ entered' = [entered EXCEPT ![p][syscall_id] = @ + 1]
    /\ UNCHANGED <<procVars, reaped, last, memVars, schedVars, cxVars, fsVars,
                   copyVars, cellVars, dirVars>>

InitInfo ==
    /\ task_info = [p \in InfoTasks |-> TaskInfo_init]
    /\ entered = [p \in InfoTasks |-> [id \in SyscallIds |-> 0]]
    /\ reported = <<>>

\* ------------------------------------------- results written to user memory
\* sys_get_time and sys_task_info, lines 127-169 of process.rs
\* physical frames 0..MaxFrame exist; user pages get frames below MaxFrame
MaxFrame == 3

Frames == 0..MaxFrame

UserFrames == 0..(MaxFrame - 1)

\* the two virtual pages the destinations lie in
CopyVpns == {0, 1}

\* size of a usize field of TimeVal and of the words followed in TaskInfo
WORD == 8

\* destinations: the last two words of virtual page 0
Dests == {PAGE_SIZE - 2 * WORD, PAGE_SIZE - WORD}

\* the offsets inside a frame that are followed
Offs == {0, WORD, PAGE_SIZE - 2 * WORD, PAGE_SIZE - WORD}

\* what get_time_us answers
TimesUs == {1000005, 2000007}

\* TaskStatus::Running as the word stored in a TaskInfo
TASK_RUNNING == 1

\* counter words and times a TaskInfo is written with
InfoWords == {3, 4}

PhysAddr(ppn, off) == [ppn |-> ppn, off |-> off]

\* the kernel's reference to the physical address of user address va
translated_refmut(pt, va) == PhysAddr(pt[va \div PAGE_SIZE], va % PAGE_SIZE)

\* the physical address d bytes after pa
pa_add(pa, d) ==
    PhysAddr(pa.ppn + (pa.off + d) \div PAGE_SIZE, (pa.off + d) % PAGE_SIZE)

\* a store of the words ws at consecutive physical addresses from pa on
store_words(m, pa, ws) ==
    [ppn \in Frames |->
        [off \in Offs |->
            IF \E k \in 1..Len(ws) : pa_add(pa, (k - 1) * WORD) = PhysAddr(ppn, off)
            THEN ws[CHOOSE k \in 1..Len(ws) :
                        pa_add(pa, (k - 1) * WORD) = PhysAddr(ppn, off)]
            ELSE m[ppn][off]]]

\* what the user reads at user address va
user_read(pt, m, va) == m[pt[va \div PAGE_SIZE]][va % PAGE_SIZE]

CCall(c, dst, ws) == [call |-> c, dst |-> dst, words |-> ws]

\* the frame allocator maps the two pages to distinct frames
map_user_pages(f) ==
    /\ frame_of = <<>>
    /\ f[0] # f[1]
    /\ frame_of' = f
    /\ UNCHANGED <<pmem, clast>>
    /\ UNCHANGED <<procVars, reaped, last, memVars, schedVars, cxVars, fsVars,
                   infoVars, cellVars, dirVars>>

\* lines 127-145
sys_get_time(ts, us) ==
    /\ frame_of # <<>>
    /\ LET phys_addr == translated_refmut(frame_of, ts)
           val == <<us \div 1000000, us % 1000000>>
       IN
       /\ pmem' = store_words(pmem, phys_addr, val)
       /\ clast' = CCall("get_time", ts, val)
    /\ UNCHANGED frame_of
    /\ UNCHANGED <<procVars, reaped, last, memVars, schedVars, cxVars, fsVars,
                   infoVars, cellVars, dirVars>>

\* lines 150-169; times and time are what the task's inner state holds
sys_task_info(ti, times, time) ==
    /\ frame_of # <<>>
    /\ LET phys_addr == translated_refmut(frame_of, ti)
           val == <<TASK_RUNNING, times, time>>
       IN
       /\ pmem' = store_words(pmem, phys_addr, val)
       /\ clast' = CCall("task_info", ti, val)
    /\ UNCHANGED frame_of
    /\ UNCHANGED <<procVars, reaped, last, memVars, schedVars, cxVars, fsVars,
                   infoVars, cellVars, dirVars>>

InitCopy ==
    /\ frame_of = <<>>
    /\ pmem = [ppn \in Frames |-> [off \in Offs |-> 0]]
    /\ clast = CCall("none", 0, <<>>)

\* --------------------------------------------------- exclusive-access cells
\* the inner_exclusive_access calls of the process syscalls, in the order
\* the code makes them; a guard lives to the end of its statement when it is
\* a temporary and to the end of its block when it is bound with let
Acq(p) == [op |-> "acq", cell |-> p]

Rel(p) == [op |-> "rel", cell |-> p]

\* a callee that reads or changes the inner state of PCB p takes p's cell
\* and gives it back before it returns
With(p) == <<Acq(p), Rel(p)>>

\* the memory set is inner state of the PCB: its token is read under the cell
current_user_token(c) == With(c)

get_user_token(p) == With(p)

\* the children examined one after the other, each under its own cell
RECURSIVE WithEach(_)
WithEach(kids) ==
    IF kids = <<>> THEN <<>> ELSE With(Head(kids)) \o WithEach(Tail(kids))

\* sequences without repetition of up to two tasks other than c
KidSeqs(c) ==
    {<<>>} \cup {<<k>> : k \in Pids \ {c}}
           \cup {kl \in (Pids \ {c}) \X (Pids \ {c}) : kl[1] # kl[2]}

\* lines 39-43: the exiting task's inner state, then INITPROC's children
cells_sys_exit(c) == With(c) \o With(INITPROC)

\* lines 45-49
cells_sys_yield(c) == With(c)

\* lines 56-69: fork under the caller's cell, then the child's trap context
cells_sys_fork(c, n) == With(c) \o With(n)

\* lines 71-84
cells_sys_exec(c, found) ==
    current_user_token(c) \o (IF found THEN With(c) ELSE <<>>)

\* lines 88-122: kids are the children find examines, the last of them the
\* zombie when one is found
cells_sys_waitpid(c, kids, outcome) ==
    <<Acq(c)>>
    \o (IF outcome = "none" THEN <<>>
        ELSE IF outcome = "wait" THEN WithEach(kids)
        ELSE WithEach(kids) \o With(kids[Len(kids)]))
    \o <<Rel(c)>>

\* lines 127-145
cells_sys_get_time(c) == current_user_token(c)

\* lines 150-169: inner is held from line 156 to the end
cells_sys_task_info(c) == <<Acq(c)>> \o current_user_token(c) \o <<Rel(c)>>

\* lines 180-203 and 221-238
cells_sys_mmap(c, ok) == IF ok THEN With(c) ELSE <<>>

\* lines 252-275
cells_sys_spawn(c, n, found) ==
    With(c) \o With(n) \o get_user_token(n) \o (IF found THEN With(n) ELSE <<>>)

\* lines 278-293
cells_sys_set_priority(c, ok) == IF ok THEN With(c) ELSE <<>>

Running(name, c, prog) == [name |-> name, task |-> c, prog |-> prog]

Idle == Running("none", INITPROC, <<>>)

\* task c traps with a syscall: no syscall is being executed
enter(name, c, prog) ==
    /\ crun.prog = <<>>
    /\ ~cfault
    /\ held = <<>>
    /\ crun' = Running(name, c, prog)
    /\ UNCHANGED <<held, cfault>>
    /\ UNCHANGED <<procVars, reaped, last, memVars, schedVars, cxVars, fsVars,
                   infoVars, copyVars, dirVars>>

\* the next inner_exclusive_access, or the drop of a guard
cell_step ==
    /\ crun.prog # <<>>
    /\ ~cfault
    /\ LET o == Head(crun.prog) IN
       IF o.op = "acq" THEN
            IF Occurrences(held, o.cell) > 0 THEN
                /\ cfault' = TRUE
                /\ UNCHANGED <<crun, held>>
            ELSE
                /\ held' = Append(held, o.cell)
                /\ crun' = [crun EXCEPT !.prog = Tail(@)]
                /\ UNCHANGED cfault
       ELSE
            /\ held' = SelectSeq(held, LAMBDA h : h # o.cell)
            /\ crun' = [crun EXCEPT !.prog = Tail(@)]
            /\ UNCHANGED cfault
    /\ UNCHANGED <<procVars, reaped, last, memVars, schedVars, cxVars, fsVars,
                   infoVars, copyVars, dirVars>>

InitCell ==
    /\ crun = Idle
    /\ held = <<>>
    /\ cfault = FALSE

\* ------------------------------------------------------- link-count table
\* inode numbers of the files link and unlink are called with
MaxInode == 3

Inodes == 1..MaxInode

\* the u32 counts are followed up to MaxCount
MaxCount == 4

FCall(c, ino, r) == [call |-> c, ino |-> ino, ret |-> r]

\* lines 112-119 and 128-138: index of the first entry of the inode number,
\* 0 when the loop ends without one
find_link(v, ino) ==
    IF \E i \in 1..Len(v) : v[i].ino = ino
    THEN CHOOSE i \in 1..Len(v) :
            v[i].ino = ino /\ \A j \in 1..(i - 1) : v[j].ino # ino
    ELSE 0

\* faulty variant: the entry goes when its count is 0
last_link_at_zero(count) == count = 0

\* line 133: the entry goes when its count is 1
last_link(count) == count = 1

\* lines 108-124
link(ino) ==
    /\ LET i == find_link(link_vec, ino) IN
       IF i # 0 THEN
            /\ link_vec[i].count < MaxCount
            /\ link_vec' = [link_vec EXCEPT ![i].count = @ + 1]
       ELSE
            link_vec' = Append(link_vec, [ino |-> ino, count |-> 2])
    /\ flast' = FCall("link", ino, TRUE)
    /\ UNCHANGED <<procVars, reaped, last, memVars, schedVars, cxVars, infoVars,
                   copyVars, cellVars, dirVars>>

\* lines 125-142
unlink(ino) ==
    /\ LET i == find_link(link_vec, ino) IN
       IF i # 0 THEN
            /\ link_vec' = IF last_link(link_vec[i].count - 1)
                           THEN RemoveAt(link_vec, i)
                           ELSE [link_vec EXCEPT ![i].count = @ - 1]
            /\ flast' = FCall("unlink", ino, TRUE)
       ELSE
            /\ link_vec' = link_vec
            /\ flast' = FCall("unlink", ino, FALSE)
    /\ UNCHANGED <<procVars, reaped, last, memVars, schedVars, cxVars, infoVars,
                   copyVars, cellVars, dirVars>>

\* lines 64-66: LINK_VEC starts empty
\* ------------------------------------------------------------ hard links
\* create_link, destroy_link and fstat, lines 181-232 and 287-326 of inode.rs
\* the names a root directory entry can have
Names == {"a", "b", "c", "d"}

DCall(c, name, r) == [call |-> c, name |-> name, ret |-> r]

\* ROOT_INODE.find: Option<Arc<Inode>> as <<>> or <<ino>>
ROOT_INODE_find(d, name) == IF d[name] = 0 THEN <<>> ELSE <<d[name]>>

\* ROOT_INODE.create_link: a new entry of that name for the inode, refused
\* when the name is taken
ROOT_INODE_create_link_ok(d, new_name) == d[new_name] = 0

ROOT_INODE_create_link(d, new_name, ino) == [d EXCEPT ![new_name] = ino]

remove_name_from_dir(d, name) == [d EXCEPT ![name] = 0]

\* LINK_VEC after link(old), lines 108-124
link_vec_linked(v, ino) ==
    LET i == find_link(v, ino) IN
    IF i # 0 THEN [v EXCEPT ![i].count = @ + 1]
    ELSE Append(v, [ino |-> ino, count |-> 2])

\* LINK_VEC after unlink(old), lines 125-142
link_vec_unlinked(v, ino) ==
    LET i == find_link(v, ino) IN
    IF i = 0 THEN v
    ELSE IF last_link(v[i].count - 1) THEN RemoveAt(v, i)
    ELSE [v EXCEPT ![i].count = @ - 1]

\* lines 181-210
create_link(old_name, new_name) ==
    LET old_inode == ROOT_INODE_find(dir, old_name) IN
    /\ IF old_inode # <<>> /\ ROOT_INODE_create_link_ok(dir, new_name) THEN
            /\ dir' = ROOT_INODE_create_link(dir, new_name, old_inode[1])
            /\ link_vec' = link_vec_linked(link_vec, old_inode[1])
            /\ flast' = FCall("link", old_inode[1], TRUE)
            /\ dlast' = DCall("create_link", new_name, 0)
       ELSE
            /\ dlast' = DCall("create_link", new_name, -1)
            /\ UNCHANGED <<dir, fsVars>>
    /\ UNCHANGED <<procVars, reaped, last, memVars, schedVars, cxVars, infoVars,
                   copyVars, cellVars>>

\* lines 213-232: the name leaves the directory when unlink found no entry
destroy_link(name) ==
    LET find_inode == ROOT_INODE_find(dir, name) IN
    /\ IF find_inode # <<>> THEN
            LET find == find_link(link_vec, find_inode[1]) # 0 IN
            /\ link_vec' = link_vec_unlinked(link_vec, find_inode[1])
            /\ flast' = FCall("unlink", find_inode[1], find)
            /\ dir' = IF ~find THEN remove_name_from_dir(dir, name) ELSE dir
            /\ dlast' = DCall("destroy_link", name, 0)
       ELSE
            /\ dlast' = DCall("destroy_link", name, -1)
            /\ UNCHANGED <<dir, fsVars>>
    /\ UNCHANGED <<procVars, reaped, last, memVars, schedVars, cxVars, infoVars,
                   copyVars, cellVars>>

\* the nlink of the Stat that fstat answers for a file of that inode,
\* lines 287-326
fstat_nlink(v, ino) ==
    LET i == find_link(v, ino) IN IF i # 0 THEN v[i].count ELSE 1

\* the disk image holds two files
InitDir ==
    /\ dir = [n \in Names |-> IF n = "a" THEN 1 ELSE IF n = "b" THEN 2 ELSE 0]
    /\ dlast = DCall("boot", "", 0)

InitFs ==
    /\ link_vec = <<>>
    /\ flast = FCall("boot", 0, TRUE)

InitSide == InitFs /\ InitInfo /\ InitCopy /\ InitCell /\ InitDir

\* --------------------------------------------------------- stride scheduling
\* config::BIG_STRIDE
BIG_STRIDE == 60

\* the priority a new PCB starts with
INIT_PRIO == 16

\* strides are followed up to MaxStride
MaxStride == 12

\* the scheduling specifications run tasks 1..MaxTask
MaxTask == 2

SchedTasks == 1..MaxTask

\* priorities passed to sys_set_priority
SetPrios == {-1, 1, 2, 10, 61}

\* fetch_task: the stride of the task it returns grows by the task's pass
fetch_stride(q, st, ps) ==
    LET i == fetch_idx(q, st) IN
    IF i = 0 THEN st ELSE [st EXCEPT ![q[i]] = @ + ps[q[i]]]

\* the task fetch_task would return from q has room below MaxStride
StrideRoom(q) ==
    LET i == fetch_idx(q, stride) IN
    i # 0 => stride[q[i]] + pass[q[i]] <= MaxStride

\* faulty variant: a priority of 2 is refused as well
set_priority_ok_above2(p) == ~(p <= 2)

\* line 283
set_priority_ok(p) == ~(p < 2)

\* line 290
set_priority_pass(p) == BIG_STRIDE \div p

\* lines 278-293
sys_set_priority(p) ==
    /\ current # <<>>
    /\ LET task == current[1] IN
       IF ~set_priority_ok(p) THEN
            /\ last' = Call("set_priority", -1)
            /\ UNCHANGED <<prio, pass>>
       ELSE
            /\ prio' = [prio EXCEPT ![task] = p]
            /\ pass' = [pass EXCEPT ![task] = set_priority_pass(p)]
            /\ last' = Call("set_priority", p)
    /\ UNCHANGED <<procVars, reaped, memVars, cxVars, sideVars, stride, fetched, rounds, selected>>

\* the idle loop of run_tasks: fetch_task, and the task it returns runs
run_tasks_step ==
    /\ current = <<>>
    /\ LET s == schedule(ready_queue, stride) IN
       /\ current' = s.cur
       /\ ready_queue' = s.rq
       /\ status' = [q \in Pids |-> IF s.cur = <<q>> THEN "Running" ELSE status[q]]
       /\ fetched' = s.cur
    /\ stride' = fetch_stride(ready_queue, stride, pass)
    /\ UNCHANGED <<procs, children, parent, exit_code, umem, next_pid, panicked,
                   reaped, last, memVars, cxVars, sideVars, prio, pass>>

\* sys_yield with the strides followed
yield_step ==
    /\ current # <<>>
    /\ suspend_current_and_run_next(current[1], stride)
    /\ stride' = fetch_stride(add_task(ready_queue, current[1]), stride, pass)
    /\ fetched' = <<fetch_task(add_task(ready_queue, current[1]), stride)>>
    /\ last' = Call("yield", 0)
    /\ UNCHANGED <<memVars, cxVars, sideVars, prio, pass>>

run_tasks ==
    /\ StrideRoom(ready_queue)
    /\ run_tasks_step
    /\ UNCHANGED <<rounds, selected>>

yield_stride ==
    /\ current # <<>>
    /\ StrideRoom(add_task(ready_queue, current[1]))
    /\ yield_step
    /\ UNCHANGED <<rounds, selected>>

\* sys_exit with the strides followed
exit_stride(code) ==
    /\ current # <<>>
    /\ StrideRoom(ready_queue)
    /\ exit_current_and_run_next(current[1], code, stride)
    /\ stride' = fetch_stride(ready_queue, stride, pass)
    /\ fetched' = IF ready_queue = <<>> THEN <<>>
                  ELSE <<fetch_task(ready_queue, stride)>>
    /\ last' = Call("exit", 0)
    /\ UNCHANGED <<memVars, cxVars, sideVars, prio, pass, rounds, selected>>

\* every task of SchedTasks is ready, in pid order, and nothing has run
InitTasks ==
    /\ procs = SchedTasks
    /\ status = [p \in Pids |-> IF p \in SchedTasks THEN "Ready" ELSE "None"]
    /\ children = [p \in Pids |-> <<>>]
    /\ parent = [p \in Pids |-> <<>>]
    /\ exit_code = [p \in Pids |-> 0]
    /\ umem = [p \in Pids |-> ZeroMem]
    /\ ready_queue = [i \in 1..MaxTask |-> i]
    /\ current = <<>>
    /\ next_pid = MaxTask + 1
    /\ panicked = FALSE
    /\ reaped = {}
    /\ last = Call("boot", 0)
    /\ page_table = [v \in Vpns |-> {}]
    /\ mlast = MCall("boot", 0, 0, 0, 0, <<>>, [v \in Vpns |-> {}])
    /\ stride = [p \in Pids |-> 0]
    /\ fetched = <<>>
    /\ rounds = 0
    /\ selected = [p \in Pids |-> 0]
    /\ trap_cx = [p \in Pids |-> InitCx]
    /\ copied = {}
    /\ InitSide

InitSched ==
    /\ InitTasks
    /\ prio = [p \in Pids |-> INIT_PRIO]
    /\ pass = [p \in Pids |-> BIG_STRIDE \div INIT_PRIO]

NextSched ==
    \/ run_tasks
    \/ yield_stride
    \/ \E code \in {0} : exit_stride(code)
    \/ \E p \in SetPrios : sys_set_priority(p)

SpecSched == InitSched /\ [][NextSched]_vars

\* --------------------------------------------------------------- SpecRounds
\* tasks that are always ready: each has called set_priority once, all start
\* with stride 0, and every round one task is fetched, runs and yields
MaxRounds == 30

\* priorities the tasks have set
RoundPrios == {2, 5, 10, 31, 61}

InitRounds ==
    /\ InitTasks
    /\ \E pr \in [SchedTasks -> RoundPrios] :
          /\ prio = [p \in Pids |-> IF p \in SchedTasks THEN pr[p] ELSE INIT_PRIO]
          /\ pass = [p \in Pids |->
                        IF p \in SchedTasks THEN set_priority_pass(pr[p])
                        ELSE BIG_STRIDE \div INIT_PRIO]

round ==
    /\ rounds < MaxRounds
    /\ run_tasks_step \/ yield_step
    /\ rounds' = rounds + 1
    /\ selected' = [selected EXCEPT ![fetched'[1]] = @ + 1]

SpecRounds == InitRounds /\ [][round]_vars

\* -------------------------------------------------------------------- Spec
Init ==
    /\ procs = {INITPROC}
    /\ status = [p \in Pids |-> IF p = INITPROC THEN "Running" ELSE "None"]
    /\ children = [p \in Pids |-> <<>>]
    /\ parent = [p \in Pids |-> <<>>]
    /\ exit_code = [p \in Pids |-> 0]
    /\ umem = [p \in Pids |-> ZeroMem]
    /\ ready_queue = <<>>
    /\ current = <<INITPROC>>
    /\ next_pid = 1
    /\ panicked = FALSE
    /\ reaped = {}
    /\ last = Call("boot", 0)
    /\ page_table = [v \in Vpns |-> {}]
    /\ mlast = MCall("boot", 0, 0, 0, 0, <<>>, [v \in Vpns |-> {}])
    /\ prio = [p \in Pids |-> INIT_PRIO]
    /\ pass = [p \in Pids |-> BIG_STRIDE \div INIT_PRIO]
    /\ stride = [p \in Pids |-> 0]
    /\ fetched = <<>>
    /\ rounds = 0
    /\ selected = [p \in Pids |-> 0]
    /\ trap_cx = [p \in Pids |-> InitCx]
    /\ copied = {}
    /\ InitSide

Next ==
    \/ sys_fork
    \/ \E path \in Paths : sys_spawn(path)
    \/ \E path \in Paths : sys_exec(path)
    \/ \E code \in ExitCodes : sys_exit(code)
    \/ sys_yield
    \/ \E pid \in WaitPids, ptr \in Ptrs : sys_waitpid(pid, ptr)

Spec == Init /\ [][Next]_vars

\* ----------------------------------------------------------------- SpecMem
NextMem ==
    \/ \E start \in Starts, len \in Lens, prot \in Prots :
          sys_mmap(start, len, prot)
    \/ \E start \in Starts, len \in Lens : sys_munmap(start, len)

SpecMem == Init /\ [][NextMem]_vars

\* ---------------------------------------------------------------- SpecLoad
\* paths passed to exec and spawn: a program, no file, a file that is no program
LoadPaths == {"app", "nofile", "bad"}

\* pids the pid pool hands out in SpecLoad
MaxLoadPid == 2

NextLoad ==
    \/ next_pid <= MaxLoadPid /\ sys_fork
    \/ \E path \in LoadPaths : next_pid <= MaxLoadPid /\ sys_spawn(path)
    \/ \E path \in LoadPaths : sys_exec(path)
    \/ sys_yield
    \/ \E a0 \in UserRegs : user_run(a0, 4, 7)

SpecLoad == Init /\ [][NextLoad]_vars

\* ---------------------------------------------------------------- SpecLink
NextLink ==
    \/ \E ino \in Inodes : link(ino)
    \/ \E ino \in Inodes : unlink(ino)

SpecLink == Init /\ [][NextLink]_vars

\* hard links of the root directory
NextDir ==
    \/ \E old_name \in Names, new_name \in Names : create_link(old_name, new_name)
    \/ \E name \in Names : destroy_link(name)

SpecDir == Init /\ [][NextDir]_vars

\* get_time and task_info writing their results
NextCopy ==
    \/ \E f \in [CopyVpns -> UserFrames] : map_user_pages(f)
    \/ \E ts \in Dests, us \in TimesUs : sys_get_time(ts, us)
    \/ \E ti \in Dests, times \in InfoWords, time \in InfoWords :
          sys_task_info(ti, times, time)

SpecCopy == Init /\ [][NextCopy]_vars

\* the process syscalls as sequences of cell operations
NextCell ==
    \/ cell_step
    \/ \E c \in Pids \ {INITPROC} : enter("exit", c, cells_sys_exit(c))
    \/ \E c \in Pids : enter("yield", c, cells_sys_yield(c))
    \/ \E c \in Pids, n \in Pids : n # c /\ enter("fork", c, cells_sys_fork(c, n))
    \/ \E c \in Pids, found \in BOOLEAN : enter("exec", c, cells_sys_exec(c, found))
    \/ \E c \in Pids, outcome \in {"none", "wait", "found"} :
       \E kids \in KidSeqs(c) :
          /\ outcome = "found" => kids # <<>>
          /\ enter("waitpid", c, cells_sys_waitpid(c, kids, outcome))
    \/ \E c \in Pids : enter("get_time", c, cells_sys_get_time(c))
    \/ \E c \in Pids : enter("task_info", c, cells_sys_task_info(c))
    \/ \E c \in Pids, ok \in BOOLEAN : enter("mmap", c, cells_sys_mmap(c, ok))
    \/ \E c \in Pids, n \in Pids, found \in BOOLEAN :
          n # c /\ enter("spawn", c, cells_sys_spawn(c, n, found))
    \/ \E c \in Pids, ok \in BOOLEAN :
          enter("set_priority", c, cells_sys_set_priority(c, ok))

SpecCell == Init /\ [][NextCell]_vars

\* syscall accounting alone
NextInfo == \E p \in InfoTasks, id \in SyscallIds, now \in Times : syscall(p, id, now)

SpecInfo == Init /\ [][NextInfo]_vars


\* ================================================================== claims
AllChildren == UNION {Range(children[p]) : p \in Pids}

\* the children of task the filter pid matches, and the zombies among them
MatchIdx(task, pid) ==
    {i \in 1..Len(children[task]) : pid = -1 \/ children[task][i] = pid}

ZombieMatchIdx(task, pid) ==
    {i \in MatchIdx(task, pid) : status[children[task][i]] = "Zombie"}

WaitpidLeavesAll ==
    /\ children' = children
    /\ status' = status
    /\ exit_code' = exit_code
    /\ umem' = umem
    /\ procs' = procs

\* C1: sys_waitpid returns -1 when no child of the caller matches the filter
\* and -2 when a child matches but no matching child is a zombie; in both
\* cases the children collections, every PCB's state and the caller's memory
\* are as before the call.
C1_WaitpidNoZombie ==
    [][\A pid \in WaitPids, ptr \in Ptrs :
          (last'.call = "waitpid" /\ ZombieMatchIdx(current[1], pid) = {}) =>
            \* the step has the outcome claimed, or is not this call
            \/ /\ last'.ret = IF MatchIdx(current[1], pid) = {} THEN -1 ELSE -2
               /\ WaitpidLeavesAll
            \/ ~sys_waitpid(pid, ptr)]_vars

\* C1 witness: a waitpid for one running child was answered -2 while another
\* child of the caller is a zombie
C1_Witness ==
    /\ last.call = "waitpid"
    /\ current # <<>>
    /\ last.ret = -2
    /\ \E c \in Range(children[current[1]]) : status[c] = "Zombie"
    /\ \E c \in Range(children[current[1]]) : status[c] = "Ready"

\* C2: with a matching zombie child, sys_waitpid removes exactly the first
\* matching zombie in children order, stores its exit code at out_ptr in the
\* caller's address space and returns its pid; the other children keep their
\* relative order and no other collection changes.
C2_WaitpidReapsFirstZombie ==
    [][\A pid \in WaitPids, ptr \in Ptrs :
          (/\ last'.call = "waitpid"
           /\ ZombieMatchIdx(current[1], pid) # {}
           /\ sys_waitpid(pid, ptr)) =>
            LET task == current[1]
                ch == children[task]
                first == CHOOSE i \in ZombieMatchIdx(task, pid) :
                            \A j \in ZombieMatchIdx(task, pid) : i <= j
            IN
            /\ last'.ret = ch[first]
            /\ umem'[task][ptr] = exit_code[ch[first]]
            /\ \A a \in Ptrs \ {ptr} : umem'[task][a] = umem[task][a]
            /\ Len(children'[task]) = Len(ch) - 1
            /\ \A i \in 1..(first - 1) : children'[task][i] = ch[i]
            /\ \A i \in first..(Len(ch) - 1) : children'[task][i] = ch[i + 1]
            /\ \A q \in Pids \ {task} : children'[q] = children[q]]_vars

\* C2 witness: a child was reaped from between two children that stay
C2_Witness ==
    /\ last.call = "waitpid"
    /\ last.ret > 0
    /\ ~panicked
    /\ \E i, j \in 1..Len(children[current[1]]) :
          /\ i < j
          /\ children[current[1]][i] < last.ret
          /\ children[current[1]][j] > last.ret

\* what C3 says of exit and of the reaping waitpid: exit(c) makes the caller
\* a zombie with exit code c, which it keeps while its PCB exists; a waitpid
\* of the parent for the zombie's pid, or for any child when it is the first
\* zombie, returns the pid and delivers c; a pid is returned at most once
C3_ExitThenReap ==
    /\ \A code \in ExitCodes :
          (last'.call = "exit" /\ sys_exit(code)) =>
             /\ status'[current[1]] = "Zombie"
             /\ exit_code'[current[1]] = code
    /\ \A p \in procs :
          (status[p] = "Zombie" /\ p \in procs') =>
             (status'[p] = "Zombie" /\ exit_code'[p] = exit_code[p])
    /\ \A pid \in WaitPids, ptr \in Ptrs :
          (/\ last'.call = "waitpid"
           /\ ZombieMatchIdx(current[1], pid) # {}
           /\ sys_waitpid(pid, ptr)) =>
             \A i \in 1..Len(children[current[1]]) :
                LET c == children[current[1]][i] IN
                (/\ status[c] = "Zombie"
                 /\ \/ pid = c
                    \/ /\ pid = -1
                       /\ \A j \in 1..(i - 1) :
                             status[children[current[1]][j]] # "Zombie") =>
                   /\ last'.ret = c
                   /\ umem'[current[1]][ptr] = exit_code[c]
    /\ (last'.call = "waitpid" /\ last'.ret > 0) => last'.ret \notin reaped

\* C3 as stated: a child leaves a children collection only by a waitpid that
\* returns it
C3_Original ==
    [][/\ C3_ExitThenReap
       /\ \A p \in Pids : \A c \in Range(children[p]) :
             c \notin Range(children'[p]) =>
                (last'.call = "waitpid" /\ last'.ret = c)]_vars

\* C3 amended: a child leaves the process tree (the children collections
\* taken together) only by a waitpid of its parent that returns it, and never
\* enters it again; the exit of its parent moves it to INITPROC's collection.
C3_ReapedOnce ==
    [][/\ C3_ExitThenReap
       /\ children' # children =>
             \A c \in AllChildren :
                c \notin AllChildren' =>
                   /\ last'.call = "waitpid"
                   /\ last'.ret = c
                   /\ c \in Range(children[current[1]])
       /\ \A c \in reaped : c \notin AllChildren'
       /\ \A code \in ExitCodes :
             (last'.call = "exit" /\ sys_exit(code)) =>
                \A c \in Range(children[current[1]]) :
                   c \in Range(children'[INITPROC]) /\ parent'[c] = <<INITPROC>>]_vars

\* C3 witness: a process other than INITPROC has reaped its child and found
\* the child's exit code 7 at the address it passed
C3_Witness ==
    /\ last.call = "waitpid"
    /\ current[1] # INITPROC
    /\ last.ret > 0
    /\ last.ret \in reaped
    /\ last.ret \notin AllChildren
    /\ umem[current[1]][4] = 7


\* the pages [start, start + len) touches
Touched(start, len) ==
    {v \in Vpns : len > 0 /\ v * PAGE_SIZE < start + len /\ start < (v + 1) * PAGE_SIZE}

Mapped(pt) == {v \in Vpns : pt[v] # {}}

\* C4: sys_mmap returns -1, changes nothing and passes nothing to the memory
\* set when len = 0, start is not page aligned, prot has a bit outside the
\* low three, or the low three bits of prot are zero; every other request is
\* passed on with the permissions U plus the R/W/X bits prot selects.
C4_MmapArguments ==
    [][mlast'.call = "mmap" =>
          LET a == mlast'
              bad == \/ a.len = 0
                     \/ a.start % PAGE_SIZE # 0
                     \/ a.prot >= 8
                     \/ a.prot % 8 = 0
              perm == {"U"}
                      \cup {x \in {"R"} : a.prot % 2 = 1}
                      \cup {x \in {"W"} : (a.prot \div 2) % 2 = 1}
                      \cup {x \in {"X"} : (a.prot \div 4) % 2 = 1}
          IN
          /\ bad => (a.ret = -1 /\ a.req = <<>> /\ page_table' = page_table)
          /\ ~bad => a.req = <<a.start, a.len, perm>>]_vars

\* C4 witness: an aligned, non-empty request with prot 0b1011 was rejected
\* and a request with prot 0b100 was mapped X|U
C4_Witness ==
    /\ mlast.call = "mmap"
    /\ mlast.start = PAGE_SIZE
    /\ mlast.len = PAGE_SIZE
    /\ mlast.prot = 11
    /\ mlast.ret = -1
    /\ page_table[1] = {}
    /\ page_table[0] = {"X", "U"}

\* C5: mmap on a range that touches a mapped page returns -1 and leaves every
\* page and its permissions as they were.
C5_MmapOverlap ==
    [][(/\ mlast'.call = "mmap"
        /\ \E v \in Touched(mlast'.start, mlast'.len) : page_table[v] # {}) =>
          (mlast'.ret = -1 /\ page_table' = page_table)]_vars

\* C5 witness: a well-formed two-page request was rejected with one of its
\* pages mapped and the other still unmapped
C5_Witness ==
    /\ mlast.call = "mmap"
    /\ mlast.req # <<>>
    /\ mlast.ret = -1
    /\ mlast.len = 2 * PAGE_SIZE
    /\ \E v, w \in Touched(mlast.start, mlast.len) :
          page_table[v] = {} /\ page_table[w] # {}

\* C6: sys_munmap returns -1 and changes nothing when start or start + len is
\* not page aligned or a page of the range is unmapped; when it returns 0
\* every page of the range was mapped and exactly those pages are unmapped.
C6_Munmap ==
    [][mlast'.call = "munmap" =>
          LET a == mlast'
              bad == \/ a.start % PAGE_SIZE # 0
                     \/ (a.start + a.len) % PAGE_SIZE # 0
                     \/ \E v \in Touched(a.start, a.len) : page_table[v] = {}
          IN
          /\ bad => (a.ret = -1 /\ page_table' = page_table)
          /\ a.ret \in {0, -1}
          /\ a.ret = 0 =>
                /\ \A v \in Touched(a.start, a.len) : page_table[v] # {}
                /\ \A v \in Vpns :
                      page_table'[v] = IF v \in Touched(a.start, a.len)
                                       THEN {} ELSE page_table[v]]_vars

\* C6 witness: two mapped pages were unmapped and a third page stays mapped
C6_Witness ==
    /\ mlast.call = "munmap"
    /\ mlast.ret = 0
    /\ mlast.len = 2 * PAGE_SIZE
    /\ \A v \in Touched(mlast.start, mlast.len) : page_table[v] = {}
    /\ Mapped(page_table) # {}

\* C7: after an mmap that returned 0 for an aligned start, len > 0 (a
\* multiple of the page size or not) and prot in 1..7, the munmap of the same
\* start and len that follows returns 0 and the mapped pages are those
\* mapped before the mmap.
C7_MmapThenMunmap ==
    [][(/\ mlast.call = "mmap"
        /\ mlast.ret = 0
        /\ mlast'.call = "munmap"
        /\ mlast'.start = mlast.start
        /\ mlast'.len = mlast.len) =>
          (mlast'.ret = 0 /\ Mapped(page_table') = Mapped(mlast.before))]_vars


\* C8: sys_set_priority(p) with p < 2 returns -1 and leaves priority, pass and
\* stride of the caller as they were; with p >= 2 it returns p, stores p as
\* the caller's priority and BIG_STRIDE / p as its pass, leaves its stride
\* and changes no other task.
C8_SetPriority ==
    [][\A p \in SetPrios :
          sys_set_priority(p) =>
            LET task == current[1] IN
            /\ p < 2 =>
                  (last'.ret = -1 /\ prio' = prio /\ pass' = pass)
            /\ p >= 2 =>
                  /\ last'.ret = p
                  /\ prio'[task] = p
                  /\ pass'[task] = BIG_STRIDE \div p
                  /\ \A q \in Pids \ {task} :
                        prio'[q] = prio[q] /\ pass'[q] = pass[q]
            /\ stride' = stride
            /\ UNCHANGED <<status, ready_queue, current>>]_vars

\* C8 witness: a task that has already run set priority 10 and got pass 6,
\* while another task keeps the initial priority
C8_Witness ==
    /\ last.call = "set_priority"
    /\ last.ret = 10
    /\ prio[current[1]] = 10
    /\ pass[current[1]] = 6
    /\ stride[current[1]] > 0
    /\ \E q \in SchedTasks \ {current[1]} : prio[q] = INIT_PRIO

\* what fetch_task has to do in a step that calls it on the queue q
FetchedFrom(q) ==
    IF q = <<>> THEN
        /\ fetched' = <<>>
        /\ stride' = stride
        /\ ready_queue' = <<>>
    ELSE
        \E i \in 1..Len(q) :
            /\ fetched' = <<q[i]>>
            /\ \A j \in 1..Len(q) : stride[q[i]] <= stride[q[j]]
            /\ \A j \in 1..(i - 1) : stride[q[j]] > stride[q[i]]
            /\ Len(ready_queue') = Len(q) - 1
            /\ \A j \in 1..(i - 1) : ready_queue'[j] = q[j]
            /\ \A j \in i..(Len(q) - 1) : ready_queue'[j] = q[j + 1]
            /\ \A t \in Pids :
                  stride'[t] = IF t = q[i] THEN stride[t] + pass[t] ELSE stride[t]

\* C9: fetch_task on a queue that is not empty removes and returns a task of
\* minimum stride, the earliest in queue order among equal strides, and adds
\* that task's pass to that task's stride only; on an empty queue it returns
\* none and changes nothing.
C9_FetchTask ==
    [][/\ run_tasks => FetchedFrom(ready_queue)
       /\ yield_stride => FetchedFrom(ready_queue \o <<current[1]>>)
       /\ \A code \in {0} : exit_stride(code) => FetchedFrom(ready_queue)]_vars

\* C9 witness: the task fetched had the same stride as a task behind it in
\* the queue, after both had run before
C9_Witness ==
    /\ fetched # <<>>
    /\ pass[fetched[1]] > 0
    /\ stride[fetched[1]] > pass[fetched[1]]
    /\ \E u \in Range(ready_queue) :
          stride[u] = stride[fetched[1]] - pass[fetched[1]]

RECURSIVE SumPrio(_)
SumPrio(S) ==
    IF S = {} THEN 0
    ELSE LET t == CHOOSE x \in S : TRUE IN prio[t] + SumPrio(S \ {t})

\* C10: tasks that are always ready, have priorities >= 2 and start with
\* equal stride are selected in proportion to their priorities: after any
\* number of rounds each task's selection count is within 1 of its share
\* rounds * priority / (sum of the priorities).
C10_Proportional ==
    \A t \in SchedTasks :
        LET P == SumPrio(SchedTasks) IN
        /\ selected[t] * P - rounds * prio[t] <= P
        /\ rounds * prio[t] - selected[t] * P <= P

\* the scenario of C10: priorities 10 and 5 give 20 and 10 of 30 rounds
Scenario_10_5 ==
    (prio[1] = 10 /\ prio[2] = 5 /\ rounds = 30) =>
        (selected[1] = 20 /\ selected[2] = 10)

LinkCount(v, ino) ==
    IF find_link(v, ino) = 0 THEN 0 ELSE v[find_link(v, ino)].count

\* the entries of the other inodes are the same, in the same order
OtherLinks(v, ino) == SelectSeq(v, LAMBDA e : e.ino # ino)

C11_SpawnFromImage ==
    [][\A path \in Images :
          (last'.call = "spawn" /\ sys_spawn(path)) =>
            LET task == current[1]
                c == last'.ret
            IN
            /\ c \notin procs /\ c \in procs'
            /\ c \notin copied'
            /\ umem'[c] = ZeroMem
            /\ trap_cx'[c] = InitCx
            /\ children'[task] = Append(children[task], c)
            /\ Occurrences(ready_queue', c) = 1]_vars

\* C12: exec returns -1 when loading fails, with no file of that name or
\* with a file that holds no loadable image, and the caller's address space
\* and trap context are then as before the call; it returns 0 with the
\* address space and trap context of the image installed.
C12_ExecAllOrNothing ==
    [][\A path \in LoadPaths :
          (last'.call = "exec" /\ sys_exec(path)) =>
            LET task == current[1] IN
            IF path \in Images
            THEN /\ last'.ret = 0
                 /\ umem'[task] = ZeroMem
                 /\ trap_cx'[task] = InitCx
            ELSE /\ last'.ret = -1
                 /\ umem' = umem
                 /\ trap_cx' = trap_cx]_vars

\* C13: sys_fork returns a pid no existing PCB has; the new PCB's x10 is 0,
\* it is the caller's child, its parent link is the caller and it is in the
\* ready queue exactly once.
C13_Fork ==
    [][(last'.call = "fork" /\ sys_fork) =>
          LET task == current[1]
              c == last'.ret
          IN
          /\ c \notin procs /\ c \in procs'
          /\ trap_cx'[c].x10 = 0
          /\ children'[task] = Append(children[task], c)
          /\ parent'[c] = <<task>>
          /\ Occurrences(ready_queue, c) = 0
          /\ Occurrences(ready_queue', c) = 1]_vars

\* C13 witness: a process other than INITPROC forked with 5 in its x10 and a
\* 7 in its memory: the child has the 7 and an x10 of 0
C13_Witness ==
    /\ last.call = "fork"
    /\ current[1] # INITPROC
    /\ trap_cx[current[1]].x10 = 5
    /\ trap_cx[last.ret].x10 = 0
    /\ umem[last.ret][4] = 7
    /\ parent[last.ret] = current

\* C16: a task that called exit(code) is a zombie with that exit code in
\* every later state until a waitpid of its parent returns it; as long as it
\* is a zombie it is not in the ready queue, is not the current task, its
\* PCB exists and it is in its parent's children.
C16_ZombieStays ==
    /\ [](\A p \in Pids :
             status[p] = "Zombie" =>
                /\ p \in procs
                /\ Occurrences(ready_queue, p) = 0
                /\ current # <<p>>
                /\ parent[p] # <<>>
                /\ Occurrences(children[parent[p][1]], p) = 1)
    /\ [][/\ \A code \in ExitCodes :
               (last'.call = "exit" /\ sys_exit(code)) =>
                  /\ status'[current[1]] = "Zombie"
                  /\ exit_code'[current[1]] = code
          /\ \A p \in Pids :
               status[p] = "Zombie" =>
                  \/ /\ status'[p] = "Zombie"
                     /\ exit_code'[p] = exit_code[p]
                  \/ /\ last'.call = "waitpid"
                     /\ last'.ret = p
                     /\ parent[p] = current]_vars

\* C16 witness: a zombie with exit code 7 whose parent has exited has been
\* pushed to INITPROC's children behind a younger child, and a task yielded
C16_Witness ==
    /\ last.call = "yield"
    /\ \E i, j \in 1..Len(children[INITPROC]) :
          /\ i < j
          /\ children[INITPROC][i] > children[INITPROC][j]
          /\ status[children[INITPROC][j]] = "Zombie"
          /\ exit_code[children[INITPROC][j]] = 7

\* C18: the assertion of sys_waitpid never fails: whenever sys_waitpid
\* removes a zombie child, the caller's children hold the only reference to
\* it (it is not in the ready queue, not the current task and in no other
\* children collection), and its PCB is gone when waitpid returns.
C18_ReapedChildUnshared ==
    /\ []~panicked
    /\ [][\A pid \in WaitPids, ptr \in Ptrs :
             (/\ last'.call = "waitpid"
              /\ ZombieMatchIdx(current[1], pid) # {}
              /\ sys_waitpid(pid, ptr)) =>
                LET c == children[current[1]][find_zombie(children[current[1]], pid)]
                IN
                /\ strong_count(c, children, ready_queue, current) = 1
                /\ Occurrences(children[current[1]], c) = 1
                /\ c \notin procs'
                /\ last'.ret = c]_vars

\* C18 witness: INITPROC has reaped a child and still has a zombie child
\* that was pushed to its children when that child's parent exited
C18_Witness ==
    /\ last.call = "waitpid"
    /\ last.ret > 0
    /\ last.ret \notin procs
    /\ current = <<INITPROC>>
    /\ \E i, j \in 1..Len(children[INITPROC]) :
          /\ i < j
          /\ children[INITPROC][i] > children[INITPROC][j]
          /\ status[children[INITPROC][j]] = "Zombie"

\* C20: a sys_spawn that returns -1 leaves the caller's children, the pid
\* pool and the set of PCBs as they were, and in every state every child
\* that is not a zombie is the current task or in the ready queue.
C20_SpawnFailure ==
    /\ [](\A p \in Pids : \A c \in Range(children[p]) :
             status[c] # "Zombie" =>
                (current = <<c>> \/ Occurrences(ready_queue, c) = 1))
    /\ [][\A path \in Paths :
             (last'.call = "spawn" /\ last'.ret = -1 /\ sys_spawn(path)) =>
                /\ children' = children
                /\ next_pid' = next_pid
                /\ procs' = procs]_vars

MappedFor(pt, va, n) ==
    {translated_refmut(pt, va + (k - 1) * WORD) : k \in 1..n}

\* C15: after get_time or task_info has written its structure, the user
\* reads every word of it back at the word's own virtual address, also
\* when the structure straddles two pages mapped to frames that are not
\* neighbours, and no word outside the frames' words mapped for the
\* structure has changed.
C15_CopyAcrossPages ==
    [][(clast' # clast /\ frame_of # <<>>) =>
          /\ \A k \in 1..Len(clast'.words) :
                user_read(frame_of, pmem', clast'.dst + (k - 1) * WORD)
                    = clast'.words[k]
          /\ \A ppn \in Frames : \A off \in Offs :
                PhysAddr(ppn, off) \notin
                    MappedFor(frame_of, clast'.dst, Len(clast'.words))
                => pmem'[ppn][off] = pmem[ppn][off]]_vars

\* C19: while a process syscall executes, no PCB's cell is asked for while
\* it is held (sys_task_info, which holds the caller's cell across
\* current_user_token, included), and two cells are held together only in
\* sys_waitpid: the caller's first, then one child's, which is released
\* while the caller's is still held.
C19_CellDiscipline ==
    /\ [](/\ ~cfault
          /\ \A p \in Pids : Occurrences(held, p) <= 1
          /\ Len(held) <= 2
          /\ Len(held) = 2 =>
                /\ crun.name = "waitpid"
                /\ held[1] = crun.task
                /\ held[2] # crun.task)
    /\ [][(Len(held) = 2 /\ held' # held) => held' = <<crun.task>>]_vars

\* the root-directory names that resolve to the inode
NamesOf(d, ino) == {n \in Names : d[n] = ino}

\* C21: after any sequence of create_link and destroy_link calls, the nlink
\* fstat reports for a file is the number of root-directory names that
\* resolve to its inode, and after destroy_link(name) has returned 0 the
\* name does not resolve any more, also when the inode was hard-linked.
C21_NlinkCountsNames ==
    /\ [](\A n \in Names :
             dir[n] # 0 =>
                fstat_nlink(link_vec, dir[n]) = Cardinality(NamesOf(dir, dir[n])))
    /\ [][\A name \in Names :
             (dlast'.ret = 0 /\ destroy_link(name)) => dir'[name] = 0]_vars

====
